---- MODULE Spec2Model ----
(***************************************************************************)
(* Hybrid PONV risk scoring (validation_dashboard.py).                     *)
(*                                                                         *)
(* The script is a straight-line pipeline:                                 *)
(*   raw_data = generate_synthetic_data()                  (line 73)       *)
(*   raw_data["Hybrid_PONV_Score"] = raw_data.apply(score_patient, axis=1) *)
(*                                                         (line 120)      *)
(*   st.dataframe(raw_data.head(20))                       (line 121)      *)
(*   csv = convert_df(raw_data)                            (line 132)      *)
(*   st.download_button(data=csv, ...)                     (line 133)      *)
(*                                                                         *)
(* Doses are floating point numbers in the source.  They are modelled as   *)
(* fixed-point integers counting units of 1e-7 (Scale units = 1.0), which  *)
(* is fine enough to tell 0.2 from 0.2000001 and 4 from 3.999999.          *)
(***************************************************************************)
EXTENDS Integers, Sequences, FiniteSets, TLC

VARIABLES
    pc,         \* position of the script / of the caller of score_patient
    generated,  \* the value generate_synthetic_data returned (st.cache_data entry)
    raw_data,   \* the DataFrame: [columns: Seq(name), rows: Seq(name -> value)]
    apply_i,    \* number of rows DataFrame.apply has passed to score_patient
    apply_out,  \* the scores DataFrame.apply has collected so far
    exc,        \* the exception that ended the script run, if any
    shown,      \* rows handed to st.dataframe
    csv,        \* bytes returned by convert_df, as lines of cells
    download,   \* arguments of st.download_button
    row,        \* argument of a direct call of score_patient
    base,       \* the baseline record the argument was derived from
    ret         \* value returned by the direct call

vars == <<pc, generated, raw_data, apply_i, apply_out, exc, shown, csv,
          download, row, base, ret>>

-----------------------------------------------------------------------------
(* Bounds of the model *)

\* rows of the generated cohort (n = 1000 in the source)
MaxRows == 2

\* fields in which an argument of score_patient differs from its baseline
MaxDev == 2

-----------------------------------------------------------------------------
(* Units *)

Scale == 10 ^ 7

\* 1e-6 in fixed point
Micro == Scale \div (10 ^ 6)

\* 1e-7 in fixed point, the resolution of the model
Step == Scale \div (10 ^ 7)

-----------------------------------------------------------------------------
(* The schema: keys of the dict built by generate_synthetic_data, in order *)

PatientColumns ==
    << "Gender_Female", "Non_Smoker", "History_PONV_or_MS", "Age_Less_50",
       "Anxiety", "Migraine", "Obese_BMI_30" >>

SurgeryColumns ==
    << "Abdominal_Lap_Surgery", "ENT_Neuro_Eye_Surgery",
       "Gynae_Breast_Surgery", "Surgery_gt_60min", "BloodLoss_gt_500ml" >>

DrugColumns ==
    << "Ondansetron_mg", "Midazolam_mg_per_kg", "Dexamethasone_mg",
       "Glycopyrrolate_mg", "Nalbuphine_mg", "Fentanyl_mcg_per_kg",
       "Butorphanol_mg", "Pentazocine_mg", "Propofol_TIVA",
       "Propofol_InductionOnly", "Volatile_Agents_MAC" >>

RelaxantColumns ==
    << "Succinylcholine", "Atracurium", "Cisatracurium", "Vecuronium" >>

SymptomColumns ==
    << "Nausea_gt_30min", "Vomiting_gt_2", "Abdominal_Discomfort" >>

Columns ==
    PatientColumns \o SurgeryColumns \o DrugColumns \o RelaxantColumns
        \o SymptomColumns

ScoreColumn == "Hybrid_PONV_Score"

Range(s) == { s[i] : i \in 1..Len(s) }

Fields == Range(Columns)

\* columns filled by np.random.uniform (float64)
DoseFields ==
    { "Ondansetron_mg", "Midazolam_mg_per_kg", "Dexamethasone_mg",
      "Glycopyrrolate_mg", "Nalbuphine_mg", "Fentanyl_mcg_per_kg",
      "Butorphanol_mg", "Pentazocine_mg", "Volatile_Agents_MAC" }

\* columns filled by np.random.choice([0, 1]) (int64)
BinaryFields == Fields \ DoseFields

RelaxantFields == Range(RelaxantColumns)

\* the constant each dose is compared with in score_patient, in fixed point
Threshold(f) ==
    CASE f = "Ondansetron_mg"      -> 4 * Scale
      [] f = "Midazolam_mg_per_kg" -> (5 * Scale) \div 100
      [] f = "Dexamethasone_mg"    -> 4 * Scale
      [] f = "Glycopyrrolate_mg"   -> (2 * Scale) \div 10
      [] f = "Nalbuphine_mg"       -> 50 * Scale
      [] f = "Fentanyl_mcg_per_kg" -> 5 * Scale
      [] f = "Butorphanol_mg"      -> 2 * Scale
      [] f = "Pentazocine_mg"      -> 100 * Scale
      [] f = "Volatile_Agents_MAC" -> 1 * Scale

\* upper end of the np.random.uniform(0, hi) range of each dose, in tenths
UniformHighTenths(f) ==
    CASE f = "Ondansetron_mg"      -> 240
      [] f = "Midazolam_mg_per_kg" -> 5
      [] f = "Dexamethasone_mg"    -> 400
      [] f = "Glycopyrrolate_mg"   -> 4
      [] f = "Nalbuphine_mg"       -> 1600
      [] f = "Fentanyl_mcg_per_kg" -> 200
      [] f = "Butorphanol_mg"      -> 40
      [] f = "Pentazocine_mg"      -> 3600
      [] f = "Volatile_Agents_MAC" -> 20

\* the doses the model draws: 0, the threshold, 1e-6 below it, 1e-7 above it
DoseValues(f) ==
    { v \in { 0, Threshold(f) - Micro, Threshold(f), Threshold(f) + Step } :
        0 <= v /\ v \div (Scale \div 10) < UniformHighTenths(f) }

FieldValues(f) == IF f \in DoseFields THEN DoseValues(f) ELSE {0, 1}

-----------------------------------------------------------------------------
(* score_patient *)

DrugBasedStrictOndansetron(r) ==
      (IF r["Ondansetron_mg"] > 4 * Scale THEN -2 ELSE 0)
    + (IF r["Midazolam_mg_per_kg"] >= (5 * Scale) \div 100 THEN -2 ELSE 0)
    + (IF r["Dexamethasone_mg"] >= 4 * Scale THEN -1 ELSE 0)
    + (IF r["Glycopyrrolate_mg"] > (2 * Scale) \div 10 THEN 1 ELSE 0)
    + (IF r["Nalbuphine_mg"] > 50 * Scale THEN 1 ELSE 0)
    + (IF r["Fentanyl_mcg_per_kg"] > 5 * Scale THEN 3 ELSE 0)
    + (IF r["Butorphanol_mg"] > 2 * Scale THEN 1 ELSE 0)
    + (IF r["Pentazocine_mg"] > 100 * Scale THEN 3 ELSE 0)
    + (IF r["Propofol_TIVA"] = 1 THEN -3 ELSE 0)
    + (IF r["Propofol_InductionOnly"] = 1 THEN -1 ELSE 0)
    + (IF r["Volatile_Agents_MAC"] > 1 * Scale THEN 2 ELSE 0)

\* lines 99-109
DrugBased(r) ==
      (IF r["Ondansetron_mg"] >= 4 * Scale THEN -2 ELSE 0)
    + (IF r["Midazolam_mg_per_kg"] >= (5 * Scale) \div 100 THEN -2 ELSE 0)
    + (IF r["Dexamethasone_mg"] >= 4 * Scale THEN -1 ELSE 0)
    + (IF r["Glycopyrrolate_mg"] > (2 * Scale) \div 10 THEN 1 ELSE 0)
    + (IF r["Nalbuphine_mg"] > 50 * Scale THEN 1 ELSE 0)
    + (IF r["Fentanyl_mcg_per_kg"] > 5 * Scale THEN 3 ELSE 0)
    + (IF r["Butorphanol_mg"] > 2 * Scale THEN 1 ELSE 0)
    + (IF r["Pentazocine_mg"] > 100 * Scale THEN 3 ELSE 0)
    + (IF r["Propofol_TIVA"] = 1 THEN -3 ELSE 0)
    + (IF r["Propofol_InductionOnly"] = 1 THEN -1 ELSE 0)
    + (IF r["Volatile_Agents_MAC"] > 1 * Scale THEN 2 ELSE 0)

PatientSpecificHistoryOne(r) ==
      r["Gender_Female"] * 1
    + r["Non_Smoker"] * 1
    + r["History_PONV_or_MS"] * 1
    + r["Age_Less_50"] * 1
    + r["Anxiety"] * 1
    + r["Migraine"] * 1
    + r["Obese_BMI_30"] * 1

\* lines 83-89
PatientSpecific(r) ==
      r["Gender_Female"] * 1
    + r["Non_Smoker"] * 1
    + r["History_PONV_or_MS"] * 2
    + r["Age_Less_50"] * 1
    + r["Anxiety"] * 1
    + r["Migraine"] * 1
    + r["Obese_BMI_30"] * 1

SurgicalNoBloodLoss(r) ==
      r["Abdominal_Lap_Surgery"] * 2
    + r["ENT_Neuro_Eye_Surgery"] * 1
    + r["Gynae_Breast_Surgery"] * 2
    + r["Surgery_gt_60min"] * 1

\* lines 92-96
Surgical(r) ==
      r["Abdominal_Lap_Surgery"] * 2
    + r["ENT_Neuro_Eye_Surgery"] * 1
    + r["Gynae_Breast_Surgery"] * 2
    + r["Surgery_gt_60min"] * 1
    + r["BloodLoss_gt_500ml"] * 1

MuscleRelaxantsScored(r) == r["Succinylcholine"] * 1

\* line 111: the block holds a comment and no statement
MuscleRelaxants(r) == 0

PostoperativeVomitingThree(r) ==
      r["Nausea_gt_30min"] * 1
    + r["Vomiting_gt_2"] * 3
    + r["Abdominal_Discomfort"] * 1

\* lines 114-116
Postoperative(r) ==
      r["Nausea_gt_30min"] * 1
    + r["Vomiting_gt_2"] * 2
    + r["Abdominal_Discomfort"] * 1

\* the attributes score_patient reads (row.X)
ReadFields == Fields \ RelaxantFields

\* row.X raises AttributeError when the row has no X
Raises(r) == \E f \in ReadFields : f \notin DOMAIN r

score_patient(r) ==
    0 + PatientSpecific(r) + Surgical(r) + DrugBased(r) + MuscleRelaxants(r)
      + Postoperative(r)

-----------------------------------------------------------------------------
(* Records *)

\* every binary field b, every dose at 0 (d = 0) or just above its threshold
Uniform(b, d) ==
    [ f \in Fields |->
        IF f \in DoseFields
        THEN (IF d = 0 THEN 0 ELSE Threshold(f) + Step)
        ELSE b ]

AllOff == Uniform(0, 0)

AllOn == Uniform(1, 1)

NegativeFields ==
    { "Ondansetron_mg", "Midazolam_mg_per_kg", "Dexamethasone_mg",
      "Propofol_TIVA", "Propofol_InductionOnly" }

\* the negative-weight statements true, every other one false
NegOnly == [ f \in Fields |-> IF f \in NegativeFields THEN AllOn[f] ELSE 0 ]

\* the positive-weight statements true, the negative ones false
PosOnly == [ f \in Fields |-> IF f \in NegativeFields THEN 0 ELSE AllOn[f] ]

\* every dose exactly at its threshold
AtThreshold == [ f \in Fields |-> IF f \in DoseFields THEN Threshold(f) ELSE 0 ]

Bases == { AllOff, AllOn, NegOnly, PosOnly }

\* what generate_synthetic_data can put in a row: 0/1 and doses in [0, hi)
Valid(r) ==
    /\ DOMAIN r = Fields
    /\ \A f \in BinaryFields : r[f] \in {0, 1}
    /\ \A f \in DoseFields : r[f] >= 0

-----------------------------------------------------------------------------
(* Direct calls of score_patient on one record *)

Deviations(r, b) == { f \in Fields : r[f] # b[f] }

InitFn ==
    /\ pc = "call"
    /\ base \in Bases
    /\ row = base
    /\ ret = 0
    /\ generated = [columns |-> << >>, rows |-> << >>]
    /\ raw_data = [columns |-> << >>, rows |-> << >>]
    /\ apply_i = 0
    /\ apply_out = << >>
    /\ exc = [raised |-> FALSE, at |-> 0]
    /\ shown = << >>
    /\ csv = << >>
    /\ download = << >>

\* the caller changes one more field of the argument to another valid value
Toggle ==
    /\ pc = "call"
    /\ Cardinality(Deviations(row, base)) < MaxDev
    /\ \E f \in Fields \ Deviations(row, base) :
         \E v \in FieldValues(f) \ {base[f]} :
            row' = [row EXCEPT ![f] = v]
    /\ UNCHANGED <<pc, base, ret, generated, raw_data, apply_i, apply_out, exc,
                   shown, csv, download>>

Call ==
    /\ pc = "call"
    /\ ~Raises(row)
    /\ ret' = score_patient(row)
    /\ pc' = "returned"
    /\ UNCHANGED <<row, base, generated, raw_data, apply_i, apply_out, exc,
                   shown, csv, download>>

NextFn == Toggle \/ Call

SpecFn == InitFn /\ [][NextFn]_vars

-----------------------------------------------------------------------------
(* DataFrame helpers *)

NoFrame == [columns |-> << >>, rows |-> << >>]

NoExc == [raised |-> FALSE, at |-> 0]

Min(a, b) == IF a < b THEN a ELSE b

\* st.dataframe(raw_data.head(20))
HeadRows == 20

head(df, k) == [columns |-> df.columns, rows |-> SubSeq(df.rows, 1, Min(k, Len(df.rows)))]

\* df[name] = values: a new last column, one value per row, rows kept in place
SetColumn(df, name, values) ==
    [columns |-> Append(df.columns, name),
     rows    |-> [i \in 1..Len(df.rows) |->
                    [c \in DOMAIN df.rows[i] \cup {name} |->
                        IF c = name THEN values[i] ELSE df.rows[i][c]]]]

\* the score of the row at a position passed by the row itself, not by index
ApplyScoreMirrored(df, i) == score_patient(df.rows[Len(df.rows) + 1 - i])

\* df.apply(score_patient, axis=1): the value collected for the row at position i
ApplyScore(df, i) == score_patient(df.rows[i])

-----------------------------------------------------------------------------
(* to_csv formatting *)

RECURSIVE Digits(_, _)
\* n written with k digits, zero padded
Digits(n, k) ==
    IF k = 0 THEN "" ELSE Digits(n \div 10, k - 1) \o ToString(n % 10)

RECURSIVE Fraction(_, _)
\* the k-digit fraction n without its trailing zeros
Fraction(n, k) ==
    IF n = 0 THEN ""
    ELSE IF n % 10 = 0 THEN Fraction(n \div 10, k - 1)
    ELSE Digits(n, k)

\* repr of a float64 given in fixed point: 40000000 is "4.0", 2000001 "0.2000001"
FormatFloat(v) ==
    LET a == IF v < 0 THEN 0 - v ELSE v
        frac == Fraction(a % Scale, 7)
    IN  (IF v < 0 THEN "-" ELSE "") \o ToString(a \div Scale) \o "."
            \o (IF frac = "" THEN "0" ELSE frac)

\* DataFrame.apply(axis=1) hands score_patient a float64 row (the frame mixes
\* int64 and float64 columns), so the scores it returns are float64
IsFloatColumn(c) == c \in DoseFields \cup {ScoreColumn}

FormatCell(c, r) ==
    IF c \notin DOMAIN r THEN ""
    ELSE IF c = ScoreColumn THEN FormatFloat(r[c] * Scale)
    ELSE IF IsFloatColumn(c) THEN FormatFloat(r[c])
    ELSE ToString(r[c])

FormatLine(df, i) ==
    [j \in 1..Len(df.columns) |-> FormatCell(df.columns[j], df.rows[i])]

\* to_csv(index=True): every line starts with the index cell
convert_df_with_index(df) ==
    << <<"">> \o df.columns >>
        \o [i \in 1..Len(df.rows) |-> <<ToString(i - 1)>> \o FormatLine(df, i)]

\* df.to_csv(index=False).encode("utf-8"): the header, then one line per row
convert_df(df) ==
    << df.columns >> \o [i \in 1..Len(df.rows) |-> FormatLine(df, i)]

-----------------------------------------------------------------------------
(* The script *)

Mixed ==
    [AllOff EXCEPT !["Gender_Female"] = 1, !["Abdominal_Lap_Surgery"] = 1,
                   !["Ondansetron_mg"] = Threshold("Ondansetron_mg") - Micro,
                   !["Fentanyl_mcg_per_kg"] = Threshold("Fentanyl_mcg_per_kg") + Step,
                   !["Propofol_TIVA"] = 1, !["Atracurium"] = 1,
                   !["Vomiting_gt_2"] = 1]

Relaxed == [AllOff EXCEPT !["Succinylcholine"] = 1, !["Vecuronium"] = 1]

\* the rows the model lets the generator draw
SampleRecords == Bases \cup { AtThreshold, Mixed, Relaxed }

\* every frame of n rows the generator can return
generate_synthetic_data(n) ==
    { [columns |-> Columns, rows |-> rs] : rs \in [1..n -> SampleRecords] }

Init ==
    /\ pc = "generate"
    /\ generated = NoFrame
    /\ raw_data = NoFrame
    /\ apply_i = 0
    /\ apply_out = << >>
    /\ exc = NoExc
    /\ shown = << >>
    /\ csv = << >>
    /\ download = << >>
    /\ row = AllOff
    /\ base = AllOff
    /\ ret = 0

\* line 73
Generate ==
    /\ pc = "generate"
    /\ \E n \in 1..MaxRows : \E df \in generate_synthetic_data(n) :
          /\ generated' = df
          /\ raw_data' = df
    /\ pc' = "apply"
    /\ UNCHANGED <<apply_i, apply_out, exc, shown, csv, download, row, base, ret>>

\* line 120, one row of apply: score_patient returns
ApplyRow ==
    /\ pc = "apply"
    /\ apply_i < Len(raw_data.rows)
    /\ ~Raises(raw_data.rows[apply_i + 1])
    /\ apply_out' = Append(apply_out, ApplyScore(raw_data, apply_i + 1))
    /\ apply_i' = apply_i + 1
    /\ UNCHANGED <<pc, generated, raw_data, exc, shown, csv, download, row, base, ret>>

\* line 120, one row of apply: score_patient raises, apply and the script end
ApplyRaise ==
    /\ pc = "apply"
    /\ apply_i < Len(raw_data.rows)
    /\ Raises(raw_data.rows[apply_i + 1])
    /\ exc' = [raised |-> TRUE, at |-> apply_i + 1]
    /\ pc' = "crashed"
    /\ UNCHANGED <<generated, raw_data, apply_i, apply_out, shown, csv, download,
                   row, base, ret>>

\* line 120, the assignment once apply has returned
AssignColumn ==
    /\ pc = "apply"
    /\ apply_i = Len(raw_data.rows)
    /\ raw_data' = SetColumn(raw_data, ScoreColumn, apply_out)
    /\ pc' = "display"
    /\ UNCHANGED <<generated, apply_i, apply_out, exc, shown, csv, download,
                   row, base, ret>>

\* line 121
Display ==
    /\ pc = "display"
    /\ shown' = head(raw_data, HeadRows).rows
    /\ pc' = "convert"
    /\ UNCHANGED <<generated, raw_data, apply_i, apply_out, exc, csv, download,
                   row, base, ret>>

\* convert_df called while apply is still running
ConvertEarly ==
    /\ pc \in {"apply", "convert"}
    /\ csv = << >>
    /\ csv' = convert_df(raw_data)
    /\ pc' = IF pc = "convert" THEN "download" ELSE pc
    /\ UNCHANGED <<generated, raw_data, apply_i, apply_out, exc, shown, download,
                   row, base, ret>>

\* line 132
Convert ==
    /\ pc = "convert"
    /\ csv' = convert_df(raw_data)
    /\ pc' = "download"
    /\ UNCHANGED <<generated, raw_data, apply_i, apply_out, exc, shown, download,
                   row, base, ret>>

\* lines 133-138
Download ==
    /\ pc = "download"
    /\ download' = << [label |-> "Download CSV", data |-> csv,
                       file_name |-> "hybrid_ponv_scores.csv",
                       mime |-> "text/csv"] >>
    /\ pc' = "done"
    /\ UNCHANGED <<generated, raw_data, apply_i, apply_out, exc, shown, csv,
                   row, base, ret>>

Next == Generate \/ ApplyRow \/ AssignColumn \/ Display \/ Convert \/ Download

Spec == Init /\ [][Next]_vars

-----------------------------------------------------------------------------
(* The script fed by another cohort provider (a file, an API): the table may  *)
(* hold out-of-domain values and rows that lack a field                       *)

BadBinary == [AllOff EXCEPT !["Gender_Female"] = 2]

BadAllOn == [AllOn EXCEPT !["Migraine"] = 3, !["Propofol_TIVA"] = 2]

NegativeDose == [AllOff EXCEPT !["Ondansetron_mg"] = 0 - Scale]

MissingField == [f \in Fields \ {"Anxiety"} |-> AllOn[f]]

ProviderRecords ==
    { AllOff, AllOn, BadBinary, BadAllOn, NegativeDose, MissingField }

Provide ==
    /\ pc = "generate"
    /\ \E n \in 1..MaxRows : \E rs \in [1..n -> ProviderRecords] :
          /\ generated' = [columns |-> Columns, rows |-> rs]
          /\ raw_data' = [columns |-> Columns, rows |-> rs]
    /\ pc' = "apply"
    /\ UNCHANGED <<apply_i, apply_out, exc, shown, csv, download, row, base, ret>>

NextProvider ==
    Provide \/ ApplyRow \/ ApplyRaise \/ AssignColumn \/ Display \/ Convert
        \/ Download

SpecProvider == Init /\ [][NextProvider]_vars

-----------------------------------------------------------------------------
(* The rule table of section 4.1 of the specification, as the claims use it *)

RuleTable ==
    << [field |-> "Gender_Female",          cmp |-> "=1", thr |-> 1, weight |-> 1],
       [field |-> "Non_Smoker",             cmp |-> "=1", thr |-> 1, weight |-> 1],
       [field |-> "History_PONV_or_MS",     cmp |-> "=1", thr |-> 1, weight |-> 2],
       [field |-> "Age_Less_50",            cmp |-> "=1", thr |-> 1, weight |-> 1],
       [field |-> "Anxiety",                cmp |-> "=1", thr |-> 1, weight |-> 1],
       [field |-> "Migraine",               cmp |-> "=1", thr |-> 1, weight |-> 1],
       [field |-> "Obese_BMI_30",           cmp |-> "=1", thr |-> 1, weight |-> 1],
       [field |-> "Abdominal_Lap_Surgery",  cmp |-> "=1", thr |-> 1, weight |-> 2],
       [field |-> "ENT_Neuro_Eye_Surgery",  cmp |-> "=1", thr |-> 1, weight |-> 1],
       [field |-> "Gynae_Breast_Surgery",   cmp |-> "=1", thr |-> 1, weight |-> 2],
       [field |-> "Surgery_gt_60min",       cmp |-> "=1", thr |-> 1, weight |-> 1],
       [field |-> "BloodLoss_gt_500ml",     cmp |-> "=1", thr |-> 1, weight |-> 1],
       [field |-> "Ondansetron_mg",         cmp |-> ">=", thr |-> 4 * Scale, weight |-> -2],
       [field |-> "Midazolam_mg_per_kg",    cmp |-> ">=", thr |-> (5 * Scale) \div 100, weight |-> -2],
       [field |-> "Dexamethasone_mg",       cmp |-> ">=", thr |-> 4 * Scale, weight |-> -1],
       [field |-> "Glycopyrrolate_mg",      cmp |-> ">",  thr |-> (2 * Scale) \div 10, weight |-> 1],
       [field |-> "Nalbuphine_mg",          cmp |-> ">",  thr |-> 50 * Scale, weight |-> 1],
       [field |-> "Fentanyl_mcg_per_kg",    cmp |-> ">",  thr |-> 5 * Scale, weight |-> 3],
       [field |-> "Butorphanol_mg",         cmp |-> ">",  thr |-> 2 * Scale, weight |-> 1],
       [field |-> "Pentazocine_mg",         cmp |-> ">",  thr |-> 100 * Scale, weight |-> 3],
       [field |-> "Propofol_TIVA",          cmp |-> "=1", thr |-> 1, weight |-> -3],
       [field |-> "Propofol_InductionOnly", cmp |-> "=1", thr |-> 1, weight |-> -1],
       [field |-> "Volatile_Agents_MAC",    cmp |-> ">",  thr |-> 1 * Scale, weight |-> 2],
       [field |-> "Nausea_gt_30min",        cmp |-> "=1", thr |-> 1, weight |-> 1],
       [field |-> "Vomiting_gt_2",          cmp |-> "=1", thr |-> 1, weight |-> 2],
       [field |-> "Abdominal_Discomfort",   cmp |-> "=1", thr |-> 1, weight |-> 1] >>

Rules == 1..Len(RuleTable)

Fires(k, r) ==
    LET rule == RuleTable[k] IN
    CASE rule.cmp = "=1" -> r[rule.field] = 1
      [] rule.cmp = ">=" -> r[rule.field] >= rule.thr
      [] rule.cmp = ">"  -> r[rule.field] > rule.thr

\* one rule's contribution computed in isolation
Contribution(k, r) == IF Fires(k, r) THEN RuleTable[k].weight ELSE 0

RECURSIVE TableSum(_, _)
\* the contributions of the first k rules, added up
TableSum(r, k) == IF k = 0 THEN 0 ELSE TableSum(r, k - 1) + Contribution(k, r)

RECURSIVE WeightSum(_)
WeightSum(k) == IF k = 0 THEN 0 ELSE WeightSum(k - 1) + RuleTable[k].weight

\* the all-zero baseline with the one field of rule k set so that the rule fires
OneRule(k) ==
    LET rule == RuleTable[k] IN
    [AllOff EXCEPT ![rule.field] =
        CASE rule.cmp = "=1" -> 1
          [] rule.cmp = ">=" -> rule.thr
          [] rule.cmp = ">"  -> rule.thr + Step]

\* the rule of a dose field
RuleOf(f) == CHOOSE k \in Rules : RuleTable[k].field = f

-----------------------------------------------------------------------------
(* Claims about score_patient, checked under SpecFn *)

\* C1: for every valid record score_patient returns the sum over the 26 rules
\* of the section 4.1 table of each rule's contribution computed in isolation;
\* the all-zero baseline with one field changed so that its rule fires scores
\* exactly that rule's weight.
C1_Additivity ==
    (pc = "returned" /\ Valid(row)) =>
        /\ ret \in Int
        /\ ret = TableSum(row, Len(RuleTable))
        /\ \A k \in Rules : row = OneRule(k) => ret = RuleTable[k].weight

\* a call on the baseline with only Fentanyl_mcg_per_kg above 5 returned 3
C1_Witness ==
    /\ pc = "returned"
    /\ row = OneRule(RuleOf("Fentanyl_mcg_per_kg"))
    /\ ret = 3

\* what a dose field adds to the returned score: the score less the score of
\* the same record with that dose at 0
Delta(f) == ret - score_patient([row EXCEPT ![f] = 0])

\* C2: a dose exactly at its threshold triggers the rule for the inclusive
\* rules (Ondansetron -2, Midazolam -2, Dexamethasone -1) and not for the strict
\* ones (contribution 0); a dose 1e-6 below a threshold contributes 0 and a dose
\* 1e-7 above it contributes the rule's weight.
C2_Boundary ==
    (pc = "returned" /\ Valid(row)) =>
        \A f \in DoseFields :
            LET rule == RuleTable[RuleOf(f)] IN
            /\ row[f] = rule.thr =>
                  Delta(f) = CASE f = "Ondansetron_mg"      -> -2
                               [] f = "Midazolam_mg_per_kg" -> -2
                               [] f = "Dexamethasone_mg"    -> -1
                               [] OTHER                     -> 0
            /\ row[f] = rule.thr - Micro => Delta(f) = 0
            /\ row[f] = rule.thr + Step => Delta(f) = rule.weight

\* a call with Ondansetron_mg = 4 exactly and Glycopyrrolate_mg = 0.2 exactly
\* on the baseline returned -2
C2_Witness ==
    /\ pc = "returned"
    /\ row = [AllOff EXCEPT !["Ondansetron_mg"] = 4 * Scale,
                            !["Glycopyrrolate_mg"] = (2 * Scale) \div 10]
    /\ ret = -2

\* C3: a record with every binary field 1 and every dose satisfying its
\* threshold rule scores the sum of all weights of the table, which is 21.
C3_AllOn ==
    (/\ pc = "returned"
     /\ \A f \in BinaryFields : row[f] = 1
     /\ \A k \in Rules : Fires(k, row))
        => (ret = WeightSum(Len(RuleTable)) /\ ret = 21)

\* the all-on record was scored with Ondansetron_mg exactly at its threshold
C3_Witness ==
    /\ pc = "returned"
    /\ row = [AllOn EXCEPT !["Ondansetron_mg"] = 4 * Scale]
    /\ ret = 21

\* the record with its four muscle-relaxant fields replaced by m
WithRelaxants(r, m) ==
    [f \in Fields |-> IF f \in RelaxantFields THEN m[f] ELSE r[f]]

\* C4: two valid records that agree on every field except the four
\* muscle-relaxant fields get the same score.
C4_RelaxantsNeutral ==
    (pc = "returned" /\ Valid(row)) =>
        \A m \in [RelaxantFields -> {0, 1}] :
            score_patient(WithRelaxants(row, m)) = ret

\* a record with Succinylcholine set and a scored field set was scored
C4_Witness ==
    /\ pc = "returned"
    /\ row = [AllOff EXCEPT !["Succinylcholine"] = 1, !["Vomiting_gt_2"] = 1]
    /\ ret = 2

\* C10: for every valid record the score lies in -9..30; it is -9 only when
\* exactly the five negative-weight rules fire and 30 only when exactly the
\* positive-weight rules fire; both bounds are attained.
C10_Range ==
    /\ score_patient(NegOnly) = -9
    /\ score_patient(PosOnly) = 30
    /\ (pc = "returned" /\ Valid(row)) =>
        /\ ret >= -9
        /\ ret <= 30
        /\ ret = -9 => \A k \in Rules : Fires(k, row) <=> RuleTable[k].weight < 0
        /\ ret = 30 => \A k \in Rules : Fires(k, row) <=> RuleTable[k].weight > 0

\* a call returned -9 on a record that differs from NegOnly in a relaxant flag
C10_Witness ==
    /\ pc = "returned"
    /\ ret = -9
    /\ row = [NegOnly EXCEPT !["Atracurium"] = 1]

-----------------------------------------------------------------------------
(* Claims about the script, checked under Spec *)

Scored == pc \in {"display", "convert", "download", "done"}

\* C5: the scored table has as many rows as the generated cohort; row i keeps
\* the input fields of row i and carries score_patient(input row i); the score
\* depends on the row alone, not on other rows or on the position.
C5_CohortOrder ==
    /\ Len(raw_data.rows) = Len(generated.rows)
    /\ Len(apply_out) = apply_i
    /\ \A i \in 1..Len(apply_out) : apply_out[i] = score_patient(generated.rows[i])
    /\ Scored =>
          \A i \in 1..Len(generated.rows) :
              /\ DOMAIN raw_data.rows[i] = Fields \cup {ScoreColumn}
              /\ \A f \in Fields : raw_data.rows[i][f] = generated.rows[i][f]
              /\ raw_data.rows[i][ScoreColumn] = score_patient(generated.rows[i])
              /\ \A j \in 1..Len(generated.rows) :
                    generated.rows[i] = generated.rows[j] =>
                        raw_data.rows[i][ScoreColumn] = raw_data.rows[j][ScoreColumn]

\* a cohort of two different rows with different scores was scored
C5_Witness ==
    /\ pc = "done"
    /\ Len(raw_data.rows) >= 2
    /\ generated.rows[1] = PosOnly
    /\ generated.rows[2] = NegOnly
    /\ raw_data.rows[1][ScoreColumn] = 30
    /\ raw_data.rows[2][ScoreColumn] = -9

\* the field order of section 3 of the specification: the nine doses, then the
\* two Propofol flags
SpecDeclarationOrder ==
    PatientColumns \o SurgeryColumns
        \o << "Ondansetron_mg", "Midazolam_mg_per_kg", "Dexamethasone_mg",
              "Glycopyrrolate_mg", "Nalbuphine_mg", "Fentanyl_mcg_per_kg",
              "Butorphanol_mg", "Pentazocine_mg", "Volatile_Agents_MAC",
              "Propofol_TIVA", "Propofol_InductionOnly" >>
        \o RelaxantColumns \o SymptomColumns

\* that order with Volatile_Agents_MAC after the two Propofol flags
DictOrder ==
    PatientColumns \o SurgeryColumns
        \o << "Ondansetron_mg", "Midazolam_mg_per_kg", "Dexamethasone_mg",
              "Glycopyrrolate_mg", "Nalbuphine_mg", "Fentanyl_mcg_per_kg",
              "Butorphanol_mg", "Pentazocine_mg", "Propofol_TIVA",
              "Propofol_InductionOnly", "Volatile_Agents_MAC" >>
        \o RelaxantColumns \o SymptomColumns

\* a table of one header line and one line per record in cohort order, without
\* an index column, whose columns are order followed by Hybrid_PONV_Score
CsvLayout(order) ==
    csv # << >> =>
        /\ Len(csv) = 1 + Len(generated.rows)
        /\ csv[1] = order \o <<ScoreColumn>>
        /\ RelaxantFields \subseteq Range(csv[1])
        /\ \A i \in 1..Len(generated.rows) :
              /\ Len(csv[i + 1]) = Len(order) + 1
              /\ \A j \in 1..Len(order) :
                    csv[i + 1][j] = FormatCell(order[j], generated.rows[i])
              /\ csv[i + 1][Len(order) + 1]
                    = FormatFloat(score_patient(generated.rows[i]) * Scale)

\* C8 as stated: the columns of the exported table are the input fields in
\* the declaration order of the schema (section 3), then Hybrid_PONV_Score.
C8_SpecOrder == CsvLayout(SpecDeclarationOrder)

\* C8 amended: the exported table has one header line and one line per record
\* in cohort order, no index column, and its columns are the input fields in
\* the order of the keys of the dict built by generate_synthetic_data
\* (Volatile_Agents_MAC after the two Propofol flags), the four muscle-relaxant
\* columns included, then Hybrid_PONV_Score as the last column.
C8_DictOrder == CsvLayout(DictOrder)

\* a cohort of two records was exported
C8_Witness ==
    /\ pc = "done"
    /\ Len(csv) = 3
    /\ csv[1][21] = "Propofol_TIVA"
    /\ csv[1][23] = "Volatile_Agents_MAC"
    /\ csv[2][31] = "30.0"
    /\ csv[3][31] = "-9.0"

\* C9: generation completes before the first record is scored, export starts
\* only after every record has been scored, and the exported table has no row
\* without its Hybrid_PONV_Score.
C9_NoInterleaving ==
    /\ (apply_i > 0 \/ apply_out # << >>) =>
          /\ generated # NoFrame
          /\ pc # "generate"
    /\ (csv # << >> \/ download # << >>) =>
          /\ apply_i = Len(generated.rows)
          /\ Len(apply_out) = Len(generated.rows)
          /\ raw_data.columns[Len(raw_data.columns)] = ScoreColumn
          /\ \A i \in 1..Len(raw_data.rows) : ScoreColumn \in DOMAIN raw_data.rows[i]
          /\ \A i \in 2..Len(csv) :
                /\ Len(csv[i]) = Len(csv[1])
                /\ csv[1][Len(csv[1])] = ScoreColumn
                /\ csv[i][Len(csv[i])] # ""
    /\ download # << >> => download[1].data = csv /\ csv # << >>

\* the export of a scored cohort of two records was handed to the download
C9_Witness ==
    /\ pc = "done"
    /\ download # << >>
    /\ Len(download[1].data) = 3
    /\ apply_i = 2

-----------------------------------------------------------------------------
(* Claims about records outside the declared domain, checked under          *)
(* SpecProvider                                                              *)

\* a binary field outside {0,1} or a negative dose
OutOfDomain(r) ==
    \E f \in DOMAIN r :
        \/ f \in BinaryFields /\ r[f] \notin {0, 1}
        \/ f \in DoseFields /\ r[f] < 0

\* C6: a record with a binary field outside {0,1} or a negative dose is
\* rejected: scoring it yields an error and no Hybrid_PONV_Score is produced
\* for it.
C6_DomainRejected ==
    \A i \in 1..Len(generated.rows) :
        OutOfDomain(generated.rows[i]) =>
            /\ Len(apply_out) < i
            /\ ScoreColumn \notin DOMAIN raw_data.rows[i]
            /\ apply_i >= i => (exc.raised /\ exc.at = i)

====
